---------------------------- MODULE Spec2Model ----------------------------
(***************************************************************************)
(* A model of the PodPreset mutating admission webhook                     *)
(* (pkg/handler/handler.go): the four attribute mergers, the conflict      *)
(* probe, the applier and the Handle entry point.  This is the handler the *)
(* module's go.mod builds (controller-runtime v0.7.0); the handler of the  *)
(* older operator layout (pkg/controller/podpreset/handler) is written     *)
(* against an API that go.mod does not provide and is not modelled.        *)
(*                                                                         *)
(* A Go slice is modelled as a record [isNil, items]: a nil slice and an   *)
(* empty non-nil slice are different values, as they are in Go.  The lists *)
(* of a preset are only ever ranged over by the code, so they are plain    *)
(* sequences.  A Go map is a function whose DOMAIN is the set of keys      *)
(* present.  An error is the sequence of its conflict descriptors; the     *)
(* empty sequence is the nil error (utilerrors.NewAggregate returns nil    *)
(* for an empty list).                                                     *)
(***************************************************************************)
EXTENDS Integers, Sequences, FiniteSets, TLC

VARIABLES
    req,            \* the admission request being handled
    pc,             \* position of the request inside Handle
    pod,            \* the decoded pod, mutated in place by the applier
    podPresetList,  \* result of Client.List
    matchingPPs,    \* result of filterPodPresets
    err,            \* the error of safeToApplyPodPresetsOnPod
    response,       \* the admission response, once returned
    trace,          \* the calls made by this request, in order
    mKind,          \* merger under test: which of the four mergers
    mOrig,          \* merger under test: the list passed as original
    mPresets,       \* merger under test: the preset list
    mOut,           \* merger under test: the returned (list, error)
    heap,           \* requests in flight: the backing arrays, by owner
    store,          \* requests in flight: the presets of each namespace
    cache,          \* requests in flight: the client's presets in memory
    rq              \* requests in flight: each request's own variables

hvars == <<req, pc, pod, podPresetList, matchingPPs, err, response, trace>>
mvars == <<mKind, mOrig, mPresets, mOut>>
cvars == <<heap, store, cache, rq>>
vars == <<req, pc, pod, podPresetList, matchingPPs, err, response, trace,
          mKind, mOrig, mPresets, mOut, heap, store, cache, rq>>

-----------------------------------------------------------------------------
(* Bounds of the model *)

\* longest list passed as original to a merger under test
MaxOrig == 2
\* longest Env/EnvFrom/Volumes/VolumeMounts list of a decoded pod
MaxPodEntries == 1
\* most presets in one listing
MaxPresets == 2
\* most entries the presets of one listing inject
MaxInjected == 2

-----------------------------------------------------------------------------
(* Values *)

annotationPrefix == "podpreset.admission.kubernetes.io"
\* an annotation key is the sequence of the pieces of its text
MirrorPodAnnotationKey == <<"kubernetes.io", "/config.mirror">>
PodPresetOptOutAnnotationKey == <<"podpreset.admission.kubernetes.io", "/exclude">>

NilSlice == [isNil |-> TRUE, items |-> <<>>]
MakeSlice(s) == [isNil |-> FALSE, items |-> s]

NilRef == [isNil |-> TRUE, name |-> "", optional |-> "nil"]
Ref(n, o) == [isNil |-> FALSE, name |-> n, optional |-> o]

\* corev1.EnvVar
EnvVars ==
    { [name |-> "FOO", value |-> "a"],
      [name |-> "FOO", value |-> "z"],
      [name |-> "BAR", value |-> "b"] }

\* corev1.EnvFromSource
EnvFromSources ==
    { [prefix |-> "", configMapRef |-> Ref("cfg", "nil"), secretRef |-> NilRef],
      [prefix |-> "", configMapRef |-> Ref("cfg", "true"), secretRef |-> NilRef],
      [prefix |-> "", configMapRef |-> NilRef, secretRef |-> Ref("sec", "nil")] }

\* corev1.Volume
Volumes ==
    { [name |-> "v1", source |-> "emptyDir"],
      [name |-> "v1", source |-> "hostPath"],
      [name |-> "v2", source |-> "emptyDir"] }

\* corev1.VolumeMount
VolumeMounts ==
    { [name |-> "v1", mountPath |-> "/data", readOnly |-> FALSE],
      [name |-> "v1", mountPath |-> "/data", readOnly |-> TRUE],
      [name |-> "v1", mountPath |-> "/etc", readOnly |-> FALSE],
      [name |-> "v2", mountPath |-> "/data", readOnly |-> FALSE] }

Kinds == {"Env", "EnvFrom", "Volumes", "VolumeMounts"}

Domain(kind) ==
    CASE kind = "Env" -> EnvVars
      [] kind = "EnvFrom" -> EnvFromSources
      [] kind = "Volumes" -> Volumes
      [] kind = "VolumeMounts" -> VolumeMounts

SeqsUpTo(S, n) == UNION { [1..k -> S] : k \in 0..n }

Range(s) == { s[i] : i \in DOMAIN s }

-----------------------------------------------------------------------------
(* Helpers for Go maps and the nested range loops *)

\* m[k] = v
MapPut(m, k, v) == [x \in (DOMAIN m) \cup {k} |-> IF x = k THEN v ELSE m[x]]

EmptyMap == [x \in {} |-> x]

\* for _, pp := range podPresets { for _, v := range pp.Spec.<field> { ... } }
\* as the sequence of (preset name, entry) pairs the loop body sees, in order
RECURSIVE RangePresets(_, _)
RangePresets(podPresets, field) ==
    IF podPresets = <<>> THEN <<>>
    ELSE [i \in DOMAIN Head(podPresets)[field] |->
             [pp |-> Head(podPresets).name, v |-> Head(podPresets)[field][i]]]
         \o RangePresets(Tail(podPresets), field)


-----------------------------------------------------------------------------
(* The four attribute mergers.  Each returns [merged, err]: the merged     *)
(* slice (nil when a conflict was found) and the aggregated error.         *)

\* the text of one fmt.Errorf conflict message, as its parts
Conflict(what, ppName, v, found) ==
    [what |-> what, pp |-> ppName, v |-> v, found |-> found]

\* for _, v := range envVars { origEnv[v.Name] = v }
RECURSIVE IndexByName(_, _)
IndexByName(items, m) ==
    IF items = <<>> THEN m
    ELSE IndexByName(Tail(items), MapPut(m, Head(items).name, Head(items)))

RECURSIVE mergeEnvLoop(_, _, _, _)
mergeEnvLoop(todo, origEnv, mergedEnv, errs) ==
    IF todo = <<>> THEN [merged |-> mergedEnv, errs |-> errs]
    ELSE LET v == Head(todo).v IN
         IF v.name \notin DOMAIN origEnv
         THEN \* if we don't already have it append it and continue
              mergeEnvLoop(Tail(todo), MapPut(origEnv, v.name, v),
                           Append(mergedEnv, v), errs)
         ELSE \* make sure they are identical or throw an error
              mergeEnvLoop(Tail(todo), origEnv, mergedEnv,
                           IF origEnv[v.name] # v
                           THEN Append(errs, Conflict("env", Head(todo).pp, v, origEnv[v.name]))
                           ELSE errs)

\* faulty variant of mergeEnv: the unseen branch appends without writing
\* origEnv (used to test C9)
mergeEnvNoRegister(envVars, podPresets) ==
    LET todo == RangePresets(podPresets, "Env")
        origEnv == IndexByName(envVars.items, EmptyMap)
        fresh == SelectSeq(todo, LAMBDA x : x.v.name \notin DOMAIN origEnv)
        clash == SelectSeq(todo, LAMBDA x : x.v.name \in DOMAIN origEnv
                                            /\ origEnv[x.v.name] # x.v)
    IN IF clash # <<>>
       THEN [merged |-> NilSlice, err |-> clash]
       ELSE [merged |-> MakeSlice(envVars.items \o [i \in DOMAIN fresh |-> fresh[i].v]),
             err |-> <<>>]

mergeEnv(envVars, podPresets) ==
    LET r == mergeEnvLoop(RangePresets(podPresets, "Env"),
                          IndexByName(envVars.items, EmptyMap),
                          envVars.items, <<>>)
    IN IF r.errs # <<>>
       THEN [merged |-> NilSlice, err |-> r.errs]
       ELSE [merged |-> MakeSlice(r.merged), err |-> <<>>]

\* envFromMergeKey: a nil reference contributes the empty name
newEnvFromMergeKey(e) ==
    [prefix |-> e.prefix,
     configMapRefName |-> IF e.configMapRef.isNil THEN "" ELSE e.configMapRef.name,
     secretRefName |-> IF e.secretRef.isNil THEN "" ELSE e.secretRef.name]

\* for _, envSource := range envSources { origEnvSources[key(envSource)] = envSource }
RECURSIVE IndexByEnvFromKey(_, _)
IndexByEnvFromKey(items, m) ==
    IF items = <<>> THEN m
    ELSE IndexByEnvFromKey(Tail(items),
                           MapPut(m, newEnvFromMergeKey(Head(items)), Head(items)))

\* the unseen branch appends and does not write origEnvSources
RECURSIVE mergeEnvFromLoop(_, _, _, _)
mergeEnvFromLoop(todo, origEnvSources, mergedEnvFrom, errs) ==
    IF todo = <<>> THEN [merged |-> mergedEnvFrom, errs |-> errs]
    ELSE LET envFromSource == Head(todo).v
             k == newEnvFromMergeKey(envFromSource)
         IN IF k \notin DOMAIN origEnvSources
            THEN mergeEnvFromLoop(Tail(todo), origEnvSources,
                                  Append(mergedEnvFrom, envFromSource), errs)
            ELSE mergeEnvFromLoop(Tail(todo), origEnvSources, mergedEnvFrom,
                                  IF origEnvSources[k] # envFromSource
                                  THEN Append(errs, Conflict("envFrom", Head(todo).pp,
                                                             envFromSource, origEnvSources[k]))
                                  ELSE errs)

\* faulty variant of mergeEnvFrom: every preset entry is appended and none
\* is compared (used to test C6)
mergeEnvFromAppendAll(envSources, podPresets) ==
    LET todo == RangePresets(podPresets, "EnvFrom")
        all == envSources.items \o [i \in DOMAIN todo |-> todo[i].v]
    IN [merged |-> IF all = <<>> THEN NilSlice ELSE MakeSlice(all), err |-> <<>>]

\* var mergedEnvFrom; append(mergedEnvFrom, envSources...): nil stays nil
\* until the first element is appended
mergeEnvFrom(envSources, podPresets) ==
    LET r == mergeEnvFromLoop(RangePresets(podPresets, "EnvFrom"),
                              IndexByEnvFromKey(envSources.items, EmptyMap),
                              envSources.items, <<>>)
    IN IF r.errs # <<>>
       THEN [merged |-> NilSlice, err |-> r.errs]
       ELSE [merged |-> IF r.merged = <<>> THEN NilSlice ELSE MakeSlice(r.merged),
             err |-> <<>>]

\* for _, v := range volumeMounts { volumeMountsByPath[v.MountPath] = v }
RECURSIVE IndexByMountPath(_, _)
IndexByMountPath(items, m) ==
    IF items = <<>> THEN m
    ELSE IndexByMountPath(Tail(items), MapPut(m, Head(items).mountPath, Head(items)))

\* the name check and the path check both run for every preset mount
RECURSIVE mergeVolumeMountsLoop(_, _, _, _, _)
mergeVolumeMountsLoop(todo, origVolumeMounts, volumeMountsByPath, mergedVolumeMounts, errs) ==
    IF todo = <<>> THEN [merged |-> mergedVolumeMounts, errs |-> errs]
    ELSE LET v == Head(todo).v
             nameSeen == v.name \in DOMAIN origVolumeMounts
             pathSeen == v.mountPath \in DOMAIN volumeMountsByPath
             errs1 == IF nameSeen /\ origVolumeMounts[v.name] # v
                      THEN Append(errs, Conflict("volumeMount", Head(todo).pp, v,
                                                 origVolumeMounts[v.name]))
                      ELSE errs
             errs2 == IF pathSeen /\ volumeMountsByPath[v.mountPath] # v
                      THEN Append(errs1, Conflict("mountPath", Head(todo).pp, v,
                                                  volumeMountsByPath[v.mountPath]))
                      ELSE errs1
         IN mergeVolumeMountsLoop(
                Tail(todo),
                IF nameSeen THEN origVolumeMounts ELSE MapPut(origVolumeMounts, v.name, v),
                IF pathSeen THEN volumeMountsByPath
                            ELSE MapPut(volumeMountsByPath, v.mountPath, v),
                IF nameSeen THEN mergedVolumeMounts ELSE Append(mergedVolumeMounts, v),
                errs2)

\* faulty variant of mergeVolumeMounts: the mount name check appends an
\* unseen name and compares nothing (used to test C11)
mergeVolumeMountsByPathOnly(volumeMounts, podPresets) ==
    LET r == mergeVolumeMountsLoop(RangePresets(podPresets, "VolumeMounts"),
                                   IndexByName(volumeMounts.items, EmptyMap),
                                   IndexByMountPath(volumeMounts.items, EmptyMap),
                                   volumeMounts.items, <<>>)
        errs == SelectSeq(r.errs, LAMBDA c : c.what # "volumeMount")
    IN IF errs # <<>>
       THEN [merged |-> NilSlice, err |-> errs]
       ELSE [merged |-> MakeSlice(r.merged), err |-> <<>>]

\* faulty variant of mergeVolumeMounts: the mount path check is left out
\* (used to test C7)
mergeVolumeMountsByNameOnly(volumeMounts, podPresets) ==
    LET r == mergeVolumeMountsLoop(RangePresets(podPresets, "VolumeMounts"),
                                   IndexByName(volumeMounts.items, EmptyMap),
                                   IndexByMountPath(volumeMounts.items, EmptyMap),
                                   volumeMounts.items, <<>>)
        errs == SelectSeq(r.errs, LAMBDA c : c.what # "mountPath")
    IN IF errs # <<>>
       THEN [merged |-> NilSlice, err |-> errs]
       ELSE [merged |-> MakeSlice(r.merged), err |-> <<>>]

mergeVolumeMounts(volumeMounts, podPresets) ==
    LET r == mergeVolumeMountsLoop(RangePresets(podPresets, "VolumeMounts"),
                                   IndexByName(volumeMounts.items, EmptyMap),
                                   IndexByMountPath(volumeMounts.items, EmptyMap),
                                   volumeMounts.items, <<>>)
    IN IF r.errs # <<>>
       THEN [merged |-> NilSlice, err |-> r.errs]
       ELSE [merged |-> MakeSlice(r.merged), err |-> <<>>]

RECURSIVE mergeVolumesLoop(_, _, _, _)
mergeVolumesLoop(todo, origVolumes, mergedVolumes, errs) ==
    IF todo = <<>> THEN [merged |-> mergedVolumes, errs |-> errs]
    ELSE LET v == Head(todo).v IN
         IF v.name \notin DOMAIN origVolumes
         THEN mergeVolumesLoop(Tail(todo), MapPut(origVolumes, v.name, v),
                               Append(mergedVolumes, v), errs)
         ELSE mergeVolumesLoop(Tail(todo), origVolumes, mergedVolumes,
                               IF origVolumes[v.name] # v
                               THEN Append(errs, Conflict("volume", Head(todo).pp, v,
                                                          origVolumes[v.name]))
                               ELSE errs)

\* faulty variant of mergeVolumes: the index is not filled from the
\* target's volumes (used to test C10)
mergeVolumesNoIndex(volumes, podPresets) ==
    LET r == mergeVolumesLoop(RangePresets(podPresets, "Volumes"),
                              EmptyMap, volumes.items, <<>>)
    IN IF r.errs # <<>>
       THEN [merged |-> NilSlice, err |-> r.errs]
       ELSE IF Len(r.merged) = 0
            THEN [merged |-> NilSlice, err |-> <<>>]
            ELSE [merged |-> MakeSlice(r.merged), err |-> <<>>]

\* faulty variant of mergeVolumes: an empty merged list is returned as it
\* is (used to test C12)
mergeVolumesNoNormalize(volumes, podPresets) ==
    LET r == mergeVolumesLoop(RangePresets(podPresets, "Volumes"),
                              IndexByName(volumes.items, EmptyMap),
                              volumes.items, <<>>)
    IN IF r.errs # <<>>
       THEN [merged |-> NilSlice, err |-> r.errs]
       ELSE [merged |-> MakeSlice(r.merged), err |-> <<>>]

\* a merge that ends with no volume returns nil, nil
mergeVolumes(volumes, podPresets) ==
    LET r == mergeVolumesLoop(RangePresets(podPresets, "Volumes"),
                              IndexByName(volumes.items, EmptyMap),
                              volumes.items, <<>>)
    IN IF r.errs # <<>>
       THEN [merged |-> NilSlice, err |-> r.errs]
       ELSE IF Len(r.merged) = 0
            THEN [merged |-> NilSlice, err |-> <<>>]
            ELSE [merged |-> MakeSlice(r.merged), err |-> <<>>]

\* the merger of one attribute kind
merge(kind, original, podPresets) ==
    CASE kind = "Env" -> mergeEnv(original, podPresets)
      [] kind = "EnvFrom" -> mergeEnvFrom(original, podPresets)
      [] kind = "Volumes" -> mergeVolumes(original, podPresets)
      [] kind = "VolumeMounts" -> mergeVolumeMounts(original, podPresets)

-----------------------------------------------------------------------------
(* Selector filtering, the conflict probe and the applier *)

\* metav1.LabelSelectorAsSelector: a selector with an unknown operator in
\* its match expressions does not convert
LabelSelectorAsSelector(selector) ==
    IF selector.badExpr THEN [ok |-> FALSE, matchLabels |-> EmptyMap]
    ELSE [ok |-> TRUE, matchLabels |-> selector.matchLabels]

\* selector.Matches(labels.Set(pod.Labels))
Matches(sel, labels) ==
    \A k \in DOMAIN sel.matchLabels :
        k \in DOMAIN labels /\ labels[k] = sel.matchLabels[k]

\* faulty variant of filterLoop: every preset with a valid selector is
\* taken, matching or not (used to test C24)
RECURSIVE filterLoopKeepAll(_, _, _)
filterLoopKeepAll(items, p, matching) ==
    IF items = <<>> THEN [matchingPPs |-> matching, ok |-> TRUE]
    ELSE LET sel == LabelSelectorAsSelector(Head(items).selector) IN
         IF ~sel.ok THEN [matchingPPs |-> <<>>, ok |-> FALSE]
         ELSE filterLoopKeepAll(Tail(items), p, Append(matching, Head(items)))

\* faulty variant of filterLoop: a preset whose selector is invalid is
\* skipped (used to test C19)
RECURSIVE filterLoopSkipInvalid(_, _, _)
filterLoopSkipInvalid(items, p, matching) ==
    IF items = <<>> THEN [matchingPPs |-> matching, ok |-> TRUE]
    ELSE LET sel == LabelSelectorAsSelector(Head(items).selector) IN
         IF ~sel.ok THEN filterLoopSkipInvalid(Tail(items), p, matching)
         ELSE filterLoopSkipInvalid(Tail(items), p,
                         IF Matches(sel, p.labels) THEN Append(matching, Head(items))
                         ELSE matching)

RECURSIVE filterLoop(_, _, _)
filterLoop(items, p, matching) ==
    IF items = <<>> THEN [matchingPPs |-> matching, ok |-> TRUE]
    ELSE LET sel == LabelSelectorAsSelector(Head(items).selector) IN
         IF ~sel.ok THEN [matchingPPs |-> <<>>, ok |-> FALSE]
         ELSE filterLoop(Tail(items), p,
                         IF Matches(sel, p.labels) THEN Append(matching, Head(items))
                         ELSE matching)

filterPodPresets(list, p) == filterLoop(list, p, <<>>)

\* probes mergeEnv and mergeVolumeMounts of one container
safeToApplyPodPresetsOnContainer(ctr, podPresets) ==
    LET e1 == mergeEnv(ctr.env, podPresets).err
        e2 == mergeVolumeMounts(ctr.volumeMounts, podPresets).err
    IN (IF e1 # <<>> THEN <<e1>> ELSE <<>>) \o (IF e2 # <<>> THEN <<e2>> ELSE <<>>)

\* probes the pod-level volumes and nothing else
safeToApplyPodPresetsOnPod(p, podPresets) ==
    LET e == mergeVolumes(p.volumes, podPresets).err
    IN IF e # <<>> THEN <<e>> ELSE <<>>

\* the merge errors are dropped and the returned lists are assigned as they are
applyPodPresetsOnContainer(ctr, podPresets) ==
    [ctr EXCEPT !.env = mergeEnv(ctr.env, podPresets).merged,
                !.volumeMounts = mergeVolumeMounts(ctr.volumeMounts, podPresets).merged,
                !.envFrom = mergeEnvFrom(ctr.envFrom, podPresets).merged]

\* faulty variant of AnnotationKey: the preset's name is left out of the
\* key (used to test C16)
AnnotationKeyNoName(ppName) == <<annotationPrefix, "/podpreset-", "">>

\* fmt.Sprintf("%s/podpreset-%s", annotationPrefix, pp.GetName())
AnnotationKey(ppName) == <<annotationPrefix, "/podpreset-", ppName>>

\* for _, pp := range podPresets { Annotations[key(pp)] = pp.GetResourceVersion() }
RECURSIVE annotate(_, _)
annotate(m, podPresets) ==
    IF podPresets = <<>> THEN m
    ELSE annotate(MapPut(m, AnnotationKey(Head(podPresets).name),
                         Head(podPresets).resourceVersion),
                  Tail(podPresets))

\* faulty variant of applyPodPresetsOnPod: no early return on an empty
\* preset list, so the annotation map is initialised (used to test C17)
applyPodPresetsOnPodNoEarlyReturn(p, podPresets) ==
    [p EXCEPT
        !.volumes = mergeVolumes(p.volumes, podPresets).merged,
        !.containers = [i \in DOMAIN p.containers |->
                           applyPodPresetsOnContainer(p.containers[i], podPresets)],
        !.initContainers = [i \in DOMAIN p.initContainers |->
                           applyPodPresetsOnContainer(p.initContainers[i], podPresets)],
        !.annotations = [isNil |-> FALSE,
                         m |-> annotate(p.annotations.m, podPresets)]]

\* faulty variant of applyPodPresetsOnPod: the init containers are left
\* out (used to test C5)
applyPodPresetsOnPodNoInit(p, podPresets) ==
    IF Len(podPresets) = 0 THEN p
    ELSE [p EXCEPT
            !.volumes = mergeVolumes(p.volumes, podPresets).merged,
            !.containers = [i \in DOMAIN p.containers |->
                               applyPodPresetsOnContainer(p.containers[i], podPresets)],
            !.annotations = [isNil |-> FALSE,
                             m |-> annotate(p.annotations.m, podPresets)]]

applyPodPresetsOnPod(p, podPresets) ==
    IF Len(podPresets) = 0 THEN p
    ELSE [p EXCEPT
            !.volumes = mergeVolumes(p.volumes, podPresets).merged,
            !.containers = [i \in DOMAIN p.containers |->
                               applyPodPresetsOnContainer(p.containers[i], podPresets)],
            !.initContainers = [i \in DOMAIN p.initContainers |->
                               applyPodPresetsOnContainer(p.initContainers[i], podPresets)],
            !.annotations = [isNil |-> FALSE,
                             m |-> annotate(p.annotations.m, podPresets)]]

-----------------------------------------------------------------------------
(* Inputs *)

Slices(S, n) == {NilSlice} \cup { MakeSlice(q) : q \in SeqsUpTo(S, n) }

\* names and resource versions of the presets of a namespace, in listing order
PresetNames == <<"p1", "p2", "p3">>
ResourceVersions == <<"101", "102", "103">>

PodLabels == [role |-> "frontend"]

Selectors ==
    { [matchLabels |-> [role |-> "frontend"], badExpr |-> FALSE],
      [matchLabels |-> [role |-> "backend"], badExpr |-> FALSE],
      [matchLabels |-> EmptyMap, badExpr |-> TRUE] }

MatchingSelector == [matchLabels |-> [role |-> "frontend"], badExpr |-> FALSE]

EmptySpec == [Env |-> <<>>, EnvFrom |-> <<>>, Volumes |-> <<>>, VolumeMounts |-> <<>>]

\* the PodPreset named PresetNames[i] that injects `entries` into `kind`
Preset(i, selector, kind, entries) ==
    [name |-> PresetNames[i], resourceVersion |-> ResourceVersions[i],
     selector |-> selector] @@ [EmptySpec EXCEPT ![kind] = entries]

\* the ways to hand the entries e[1], e[2], ... to presets 1..n in order
Splits(e, n) ==
    { a \in [DOMAIN e -> 1..n] : \A j \in DOMAIN e : j > 1 => a[j - 1] <= a[j] }

\* the entries a split hands to preset i
Part(e, a, i) ==
    LET idx == { j \in DOMAIN e : a[j] = i }
    IN [j \in 1..Cardinality(idx) |->
           e[(CHOOSE m \in idx : \A x \in idx : m <= x) + j - 1]]

\* the preset lists of at most MaxPresets presets that inject at most
\* MaxInjected entries in all into `kind`
PresetLists(kind, selectors) ==
    UNION { { [i \in 1..n |-> Preset(i, sel[i], kind, Part(e, a, i))] :
              sel \in [1..n -> selectors], a \in Splits(e, n) } :
            <<n, e>> \in (0..MaxPresets) \X SeqsUpTo(Domain(kind), MaxInjected) }

NoAnnotations == [isNil |-> TRUE, m |-> EmptyMap]
Annotated(k, v) == [isNil |-> FALSE, m |-> MapPut(EmptyMap, k, v)]

Annotations ==
    { NoAnnotations,
      Annotated(PodPresetOptOutAnnotationKey, "false"),
      Annotated(PodPresetOptOutAnnotationKey, "true"),
      Annotated(MirrorPodAnnotationKey, "node") }

EmptyContainer(n) ==
    [name |-> n, env |-> NilSlice, envFrom |-> NilSlice, volumeMounts |-> NilSlice]

ContainerField(kind) ==
    CASE kind = "Env" -> "env"
      [] kind = "EnvFrom" -> "envFrom"
      [] kind = "VolumeMounts" -> "volumeMounts"

ContainerWith(n, kind, slice) == [EmptyContainer(n) EXCEPT ![ContainerField(kind)] = slice]

\* the pods whose lists of kind `kind` are populated: one container and at
\* most one init container
PodsOf(kind) ==
    IF kind = "Volumes"
    THEN { [labels |-> PodLabels, annotations |-> a, volumes |-> v,
            containers |-> <<EmptyContainer("c")>>, initContainers |-> <<>>] :
           a \in Annotations, v \in Slices(Volumes, MaxPodEntries) }
    ELSE { [labels |-> PodLabels, annotations |-> a, volumes |-> NilSlice,
            containers |-> <<ContainerWith("c", kind, x)>>, initContainers |-> ic] :
           a \in Annotations, x \in Slices(Domain(kind), MaxPodEntries),
           ic \in {<<>>} \cup { <<ContainerWith("i", kind, y)>> :
                                y \in Slices(Domain(kind), MaxPodEntries) } }

Pods == UNION { PodsOf(kind) : kind \in Kinds }

NoPod ==
    [labels |-> EmptyMap, annotations |-> NoAnnotations, volumes |-> NilSlice,
     containers |-> <<>>, initContainers |-> <<>>]

\* admission requests: a CREATE of a pod, a request that is not one, and a
\* request whose object does not decode
Requests ==
    { [subResource |-> "", group |-> "", operation |-> "CREATE",
       wellFormed |-> TRUE, object |-> p] : p \in Pods }
    \cup
    { [subResource |-> r[1], group |-> r[2], operation |-> r[3],
       wellFormed |-> TRUE, object |-> NoPod] :
      r \in { <<"status", "", "CREATE">>, <<"", "apps", "CREATE">>,
              <<"", "", "UPDATE">> } }
    \cup
    { [subResource |-> "", group |-> "", operation |-> "CREATE",
       wellFormed |-> FALSE, object |-> NoPod] }

-----------------------------------------------------------------------------
(* Responses *)

\* json.Marshal of a slice field tagged omitempty: an empty slice is left
\* out like a nil one
OmitEmpty(slice) == IF slice.items = <<>> THEN NilSlice ELSE slice

MarshalContainer(ctr) ==
    [ctr EXCEPT !.env = OmitEmpty(ctr.env),
                !.envFrom = OmitEmpty(ctr.envFrom),
                !.volumeMounts = OmitEmpty(ctr.volumeMounts)]

\* json.Marshal(pod)
Marshal(p) ==
    [p EXCEPT !.annotations = IF DOMAIN p.annotations.m = {} THEN NoAnnotations
                              ELSE p.annotations,
              !.volumes = OmitEmpty(p.volumes),
              !.containers = [i \in DOMAIN p.containers |->
                                 MarshalContainer(p.containers[i])],
              !.initContainers = [i \in DOMAIN p.initContainers |->
                                     MarshalContainer(p.initContainers[i])]]

PodFields == {"labels", "annotations", "volumes", "containers", "initContainers"}

\* the JSON patch from one document to another: the new value of every
\* field of the pod that differs, by path
JsonDiff(from, to) ==
    [f \in { g \in PodFields : from[g] # to[g] } |-> to[f]]

NoPatch == [f \in {} |-> f]

NoResponse == [allowed |-> FALSE, code |-> 0, reason |-> "none", patches |-> NoPatch]

\* admission.Allowed(reason)
Allowed(reason) == [allowed |-> TRUE, code |-> 200, reason |-> reason, patches |-> NoPatch]

\* admission.Errored(code, err)
Errored(code, reason) == [allowed |-> FALSE, code |-> code, reason |-> reason, patches |-> NoPatch]

\* admission.PatchResponseFromRaw(req.Object.Raw, marshaledPod): allowed,
\* with no result code set
PatchResponseFromRaw(raw, marshaledPod) ==
    [allowed |-> TRUE, code |-> 0, reason |-> "", patches |-> JsonDiff(raw, marshaledPod)]

\* the object the API server goes on with: the request's object with the
\* operations of the patch applied
Patched(object, patches) ==
    [f \in PodFields |-> IF f \in DOMAIN patches THEN patches[f] ELSE object[f]]

-----------------------------------------------------------------------------
(* Handle, one action per step of the request *)

Return(r) ==
    /\ response' = r
    /\ pc' = "done"

\* calls to subresources, to resources other than pods and operations other
\* than CREATE are allowed at once
HandleIgnore ==
    /\ pc = "start"
    /\ (req.subResource # "" \/ req.group # "" \/ req.operation # "CREATE")
    /\ Return(Allowed(""))
    /\ UNCHANGED <<req, pod, podPresetList, matchingPPs, err, trace>>
    /\ UNCHANGED mvars
    /\ UNCHANGED cvars

Decode ==
    /\ pc = "start"
    /\ ~(req.subResource # "" \/ req.group # "" \/ req.operation # "CREATE")
    /\ trace' = Append(trace, "decode")
    /\ IF ~req.wellFormed
       THEN /\ Return(Errored(400, "decode"))
            /\ UNCHANGED pod
       ELSE /\ pod' = req.object
            /\ pc' = "exclusion"
            /\ UNCHANGED response
    /\ UNCHANGED <<req, podPresetList, matchingPPs, err>>
    /\ UNCHANGED mvars
    /\ UNCHANGED cvars

\* faulty variant of CheckExclusion: the opt-out annotation is not looked
\* at (used to test C18)
CheckExclusionMirrorOnly ==
    /\ pc = "exclusion"
    /\ IF MirrorPodAnnotationKey \in DOMAIN pod.annotations.m
       THEN Return(Allowed("Mirror Pod"))
       ELSE /\ pc' = "list"
            /\ UNCHANGED response
    /\ UNCHANGED <<req, pod, podPresetList, matchingPPs, err, trace>>
    /\ UNCHANGED mvars
    /\ UNCHANGED cvars

\* the mirror pod annotation and the opt-out annotation
CheckExclusion ==
    /\ pc = "exclusion"
    /\ IF MirrorPodAnnotationKey \in DOMAIN pod.annotations.m
       THEN Return(Allowed("Mirror Pod"))
       ELSE IF /\ ~pod.annotations.isNil
               /\ PodPresetOptOutAnnotationKey \in DOMAIN pod.annotations.m
               /\ pod.annotations.m[PodPresetOptOutAnnotationKey] = "true"
            THEN Return(Allowed("Exclusion Annotation Present"))
            ELSE /\ pc' = "list"
                 /\ UNCHANGED response
    /\ UNCHANGED <<req, pod, podPresetList, matchingPPs, err, trace>>
    /\ UNCHANGED mvars
    /\ UNCHANGED cvars

\* Client.List of the presets of the request's namespace: it fails, or it
\* returns the presets stored there
List ==
    /\ pc = "list"
    /\ trace' = Append(trace, "list")
    /\ \/ /\ Return(Errored(500, "list"))
          /\ UNCHANGED podPresetList
       \/ /\ \E kind \in { k \in Kinds : pod \in PodsOf(k) } :
                \E l \in PresetLists(kind, Selectors) : podPresetList' = l
          /\ pc' = "filter"
          /\ UNCHANGED response
    /\ UNCHANGED <<req, pod, matchingPPs, err>>
    /\ UNCHANGED mvars
    /\ UNCHANGED cvars

Filter ==
    /\ pc = "filter"
    /\ trace' = Append(trace, "filter")
    /\ LET f == filterPodPresets(podPresetList, pod) IN
       IF ~f.ok
       THEN /\ Return(Errored(500, "filter"))
            /\ UNCHANGED matchingPPs
       ELSE /\ matchingPPs' = f.matchingPPs
            /\ IF Len(f.matchingPPs) = 0
               THEN Return(Allowed(""))
               ELSE /\ pc' = "probe"
                    /\ UNCHANGED response
    /\ UNCHANGED <<req, pod, podPresetList, err>>
    /\ UNCHANGED mvars
    /\ UNCHANGED cvars

\* faulty variant of Probe: a conflict ends the request with an error
\* (used to test C2)
ProbeFailClosed ==
    /\ pc = "probe"
    /\ trace' = Append(trace, "probe")
    /\ err' = safeToApplyPodPresetsOnPod(pod, matchingPPs)
    /\ IF err' # <<>>
       THEN Return(Errored(500, "conflict"))
       ELSE /\ pc' = "apply"
            /\ UNCHANGED response
    /\ UNCHANGED <<req, pod, podPresetList, matchingPPs>>
    /\ UNCHANGED mvars
    /\ UNCHANGED cvars

\* detect merge conflict: the conflict is logged, the response built in the
\* branch is dropped and control goes on to the applier
Probe ==
    /\ pc = "probe"
    /\ trace' = Append(trace, "probe")
    /\ err' = safeToApplyPodPresetsOnPod(pod, matchingPPs)
    /\ pc' = "apply"
    /\ UNCHANGED <<req, pod, podPresetList, matchingPPs, response>>
    /\ UNCHANGED mvars
    /\ UNCHANGED cvars

Apply ==
    /\ pc = "apply"
    /\ trace' = Append(trace, "apply")
    /\ pod' = applyPodPresetsOnPod(pod, matchingPPs)
    /\ pc' = "respond"
    /\ UNCHANGED <<req, podPresetList, matchingPPs, err, response>>
    /\ UNCHANGED mvars
    /\ UNCHANGED cvars

\* json.Marshal of a decoded Pod and the diff of two JSON documents do not
\* fail, so the two error returns of this step have no behaviour
Respond ==
    /\ pc = "respond"
    /\ Return(PatchResponseFromRaw(req.object, Marshal(pod)))
    /\ UNCHANGED <<req, pod, podPresetList, matchingPPs, err, trace>>
    /\ UNCHANGED mvars
    /\ UNCHANGED cvars

NoMerge == [merged |-> NilSlice, err |-> <<>>, called |-> FALSE]

\* no request in flight: the variables of the requests in flight are empty
NoneInFlight ==
    /\ heap = <<>>
    /\ store = <<>>
    /\ cache = <<>>
    /\ rq = <<>>

Init ==
    /\ req \in Requests
    /\ pc = "start"
    /\ pod = NoPod
    /\ podPresetList = <<>>
    /\ matchingPPs = <<>>
    /\ err = <<>>
    /\ response = NoResponse
    /\ trace = <<>>
    /\ mKind = "Env"
    /\ mOrig = NilSlice
    /\ mPresets = <<>>
    /\ mOut = NoMerge
    /\ NoneInFlight

Next ==
    \/ HandleIgnore
    \/ Decode
    \/ CheckExclusion
    \/ List
    \/ Filter
    \/ Probe
    \/ Apply
    \/ Respond

Spec == Init /\ [][Next]_vars

-----------------------------------------------------------------------------
(* The mergers on their own: one call of one merger on a list and a preset *)
(* list drawn from the bounded inputs                                      *)

Idle ==
    /\ req = [subResource |-> "", group |-> "", operation |-> "CREATE",
              wellFormed |-> TRUE, object |-> NoPod]
    /\ pc = "idle"
    /\ pod = NoPod
    /\ podPresetList = <<>>
    /\ matchingPPs = <<>>
    /\ err = <<>>
    /\ response = NoResponse
    /\ trace = <<>>

InitMerge ==
    /\ Idle
    /\ mKind \in Kinds
    /\ mOrig \in Slices(Domain(mKind), MaxOrig)
    /\ mPresets \in PresetLists(mKind, {MatchingSelector})
    /\ mOut = NoMerge
    /\ NoneInFlight

Call(kind) ==
    /\ mKind = kind
    /\ ~mOut.called
    /\ mOut' = merge(kind, mOrig, mPresets) @@ [called |-> TRUE]
    /\ UNCHANGED <<mKind, mOrig, mPresets>>
    /\ UNCHANGED hvars
    /\ UNCHANGED cvars

CallMergeEnv == Call("Env")
CallMergeEnvFrom == Call("EnvFrom")
CallMergeVolumes == Call("Volumes")
CallMergeVolumeMounts == Call("VolumeMounts")

NextMerge ==
    \/ CallMergeEnv
    \/ CallMergeEnvFrom
    \/ CallMergeVolumes
    \/ CallMergeVolumeMounts

SpecMerge == InitMerge /\ [][NextMerge]_vars

-----------------------------------------------------------------------------
(* Memory: slices as headers over backing arrays.  A slice header is the   *)
(* array it points into and its length; the capacity is the length of the  *)
(* array.  Arrays are named by who allocated them and a serial number, so  *)
(* a fresh array never has the name of a live one.  Entries are copied by  *)
(* value; what an entry points to is never written by this program and is  *)
(* part of the value here.                                                 *)

\* who allocates: the client's cache of presets and the requests in flight
Requesters == {"r1", "r2"}
Owners == {"cache"} \cup Requesters

NoArray == [o |-> "none", n |-> 0]
NilHeader == [arr |-> NoArray, len |-> 0]

Backing(h, s) == h[s.arr.o][s.arr.n]
Cap(h, s) == IF s.arr = NoArray THEN 0 ELSE Len(Backing(h, s))

\* the list a slice header denotes
Load(h, s) ==
    IF s.arr = NoArray THEN NilSlice
    ELSE MakeSlice(SubSeq(Backing(h, s), 1, s.len))

\* the zero value of an entry of a kind
Zero(kind) ==
    CASE kind = "Env" -> [name |-> "", value |-> ""]
      [] kind = "EnvFrom" -> [prefix |-> "", configMapRef |-> NilRef, secretRef |-> NilRef]
      [] kind = "Volumes" -> [name |-> "", source |-> ""]
      [] kind = "VolumeMounts" -> [name |-> "", mountPath |-> "", readOnly |-> FALSE]

Zeros(kind, n) == [i \in 1..n |-> Zero(kind)]

\* a new backing array with the given cells
Alloc(h, o, cells) ==
    [heap |-> [h EXCEPT ![o] = Append(@, cells)],
     arr |-> [o |-> o, n |-> Len(h[o]) + 1]]

\* make([]T, n)
GoMake(kind, h, o, n) ==
    LET a == Alloc(h, o, Zeros(kind, n))
    IN [heap |-> a.heap, slice |-> [arr |-> a.arr, len |-> n]]

\* copy(dst, src): writes the cells of dst's array
GoCopy(h, dst, src) ==
    LET n == IF dst.len < src.len THEN dst.len ELSE src.len
        items == Load(h, src).items
    IN IF n = 0 THEN h
       ELSE [h EXCEPT ![dst.arr.o][dst.arr.n] =
                 [i \in DOMAIN @ |-> IF i <= n THEN items[i] ELSE @[i]]]

\* append(s, vs...): writes behind s in its own array when the capacity
\* allows, and moves to a new array of at least twice the capacity when not
GoAppend(kind, h, o, s, vs) ==
    IF vs = <<>> THEN [heap |-> h, slice |-> s]
    ELSE LET need == s.len + Len(vs) IN
         IF need <= Cap(h, s)
         THEN [heap |-> [h EXCEPT ![s.arr.o][s.arr.n] =
                            [i \in DOMAIN @ |->
                                IF i > s.len /\ i <= need THEN vs[i - s.len] ELSE @[i]]],
               slice |-> [arr |-> s.arr, len |-> need]]
         ELSE LET newcap == IF 2 * Cap(h, s) > need THEN 2 * Cap(h, s) ELSE need
                  a == Alloc(h, o, Load(h, s).items \o vs \o Zeros(kind, newcap - need))
              IN [heap |-> a.heap, slice |-> [arr |-> a.arr, len |-> need]]

\* merged = append(merged, v), once for each entry the loop appends
RECURSIVE GoAppendEach(_, _, _, _, _)
GoAppendEach(kind, h, o, s, vs) ==
    IF vs = <<>> THEN [heap |-> h, slice |-> s]
    ELSE LET a == GoAppend(kind, h, o, s, <<Head(vs)>>)
         IN GoAppendEach(kind, a.heap, o, a.slice, Tail(vs))

\* a PodPreset in memory: its four lists are slice headers
LoadPreset(h, pp) ==
    [name |-> pp.name, resourceVersion |-> pp.resourceVersion,
     selector |-> pp.selector,
     Env |-> Load(h, pp.Env).items, EnvFrom |-> Load(h, pp.EnvFrom).items,
     Volumes |-> Load(h, pp.Volumes).items,
     VolumeMounts |-> Load(h, pp.VolumeMounts).items]

LoadPresets(h, pps) == [i \in DOMAIN pps |-> LoadPreset(h, pps[i])]

\* faulty variant of FreshList: the merged list is the original's header,
\* not a copy (used to test C21)
FreshListAliased(kind, h, o, s) == [heap |-> h, slice |-> s]

\* the list a merge starts from: make and copy for env, volume mounts and
\* volumes, append to a nil slice for envFrom
FreshList(kind, h, o, s) ==
    IF kind = "EnvFrom"
    THEN GoAppend(kind, h, o, NilHeader, Load(h, s).items)
    ELSE LET m == GoMake(kind, h, o, s.len)
         IN [heap |-> GoCopy(m.heap, m.slice, s), slice |-> m.slice]

\* the entries the loop of a merger appends, in order, conflict or not
AppendedInLoop(kind, original, podPresets) ==
    LET todo == RangePresets(podPresets, kind)
        r == CASE kind = "Env" ->
                    mergeEnvLoop(todo, IndexByName(original.items, EmptyMap),
                                 original.items, <<>>)
               [] kind = "EnvFrom" ->
                    mergeEnvFromLoop(todo, IndexByEnvFromKey(original.items, EmptyMap),
                                     original.items, <<>>)
               [] kind = "Volumes" ->
                    mergeVolumesLoop(todo, IndexByName(original.items, EmptyMap),
                                     original.items, <<>>)
               [] kind = "VolumeMounts" ->
                    mergeVolumeMountsLoop(todo, IndexByName(original.items, EmptyMap),
                                          IndexByMountPath(original.items, EmptyMap),
                                          original.items, <<>>)
    IN SubSeq(r.merged, Len(original.items) + 1, Len(r.merged))

\* a merger run on memory: the maps, the merged list and the errors are
\* the function's own; the returned header is nil on a conflict, and for
\* volumes also when the merged list is empty
mergeInMemory(kind, h, o, s, podPresets) ==
    LET original == Load(h, s)
        pps == LoadPresets(h, podPresets)
        out == merge(kind, original, pps)
        f == FreshList(kind, h, o, s)
        a == GoAppendEach(kind, f.heap, o, f.slice, AppendedInLoop(kind, original, pps))
    IN [heap |-> a.heap,
        slice |-> IF out.err # <<>> THEN NilHeader
                  ELSE IF kind = "Volumes" /\ a.slice.len = 0 THEN NilHeader
                  ELSE a.slice,
        err |-> out.err]

\* a decoded list: nil when absent, else an array holding its entries and
\* `spare` cells of capacity behind them
StoreSlice(kind, h, o, sl, spare) ==
    IF sl.isNil THEN [heap |-> h, slice |-> NilHeader]
    ELSE LET a == Alloc(h, o, sl.items \o Zeros(kind, spare))
         IN [heap |-> a.heap, slice |-> [arr |-> a.arr, len |-> Len(sl.items)]]

StoreContainer(h, o, ctr, spare) ==
    LET e == StoreSlice("Env", h, o, ctr.env, spare)
        m == StoreSlice("VolumeMounts", e.heap, o, ctr.volumeMounts, spare)
        f == StoreSlice("EnvFrom", m.heap, o, ctr.envFrom, spare)
    IN [heap |-> f.heap,
        ctr |-> [name |-> ctr.name, env |-> e.slice,
                 volumeMounts |-> m.slice, envFrom |-> f.slice]]

RECURSIVE StoreContainers(_, _, _, _, _)
StoreContainers(h, o, ctrs, spare, done) ==
    IF ctrs = <<>> THEN [heap |-> h, ctrs |-> done]
    ELSE LET c == StoreContainer(h, o, Head(ctrs), spare)
         IN StoreContainers(c.heap, o, Tail(ctrs), spare, Append(done, c.ctr))

\* the pod as the decoder leaves it in memory
StorePod(h, o, p, spare) ==
    LET v == StoreSlice("Volumes", h, o, p.volumes, spare)
        c == StoreContainers(v.heap, o, p.containers, spare, <<>>)
        i == StoreContainers(c.heap, o, p.initContainers, spare, <<>>)
    IN [heap |-> i.heap,
        pod |-> [labels |-> p.labels, annotations |-> p.annotations,
                 volumes |-> v.slice, containers |-> c.ctrs,
                 initContainers |-> i.ctrs]]

LoadContainer(h, ctr) ==
    [name |-> ctr.name, env |-> Load(h, ctr.env),
     volumeMounts |-> Load(h, ctr.volumeMounts), envFrom |-> Load(h, ctr.envFrom)]

\* the pod a reader of memory sees
LoadPod(h, p) ==
    [labels |-> p.labels, annotations |-> p.annotations,
     volumes |-> Load(h, p.volumes),
     containers |-> [i \in DOMAIN p.containers |-> LoadContainer(h, p.containers[i])],
     initContainers |-> [i \in DOMAIN p.initContainers |->
                            LoadContainer(h, p.initContainers[i])]]

\* a list of a preset in memory: nil when empty, else an array that is full
StoreField(kind, h, o, items) ==
    IF items = <<>> THEN [heap |-> h, slice |-> NilHeader]
    ELSE StoreSlice(kind, h, o, MakeSlice(items), 0)

StorePreset(h, o, pp) ==
    LET e == StoreField("Env", h, o, pp.Env)
        f == StoreField("EnvFrom", e.heap, o, pp.EnvFrom)
        v == StoreField("Volumes", f.heap, o, pp.Volumes)
        m == StoreField("VolumeMounts", v.heap, o, pp.VolumeMounts)
    IN [heap |-> m.heap,
        pp |-> [name |-> pp.name, resourceVersion |-> pp.resourceVersion,
                selector |-> pp.selector, Env |-> e.slice, EnvFrom |-> f.slice,
                Volumes |-> v.slice, VolumeMounts |-> m.slice]]

RECURSIVE StorePresets(_, _, _, _)
StorePresets(h, o, pps, done) ==
    IF pps = <<>> THEN [heap |-> h, pps |-> done]
    ELSE LET p == StorePreset(h, o, Head(pps))
         IN StorePresets(p.heap, o, Tail(pps), Append(done, p.pp))

-----------------------------------------------------------------------------
(* Requests in flight: Handle runs for two requests at once, their steps   *)
(* interleaved in any way, over one memory and one client.  Each request   *)
(* has its own pod, list, matching presets, error and response, as Handle  *)
(* has them in local variables.                                            *)

Namespaces == {"a", "b"}

\* the spare capacity the decoder may leave behind a decoded list
Spares == {0, 1}

\* the list of kind `kind` of a pod
ListOf(kind, p) ==
    IF kind = "Volumes" THEN p.volumes ELSE p.containers[1][ContainerField(kind)]

\* the pods of the requests in flight: no annotation, one container, the
\* list of kind `kind` absent or of one entry
PodsInFlight(kind) ==
    { p \in PodsOf(kind) :
          /\ p.annotations = NoAnnotations
          /\ p.initContainers = <<>>
          /\ (ListOf(kind, p).isNil \/ Len(ListOf(kind, p).items) = 1) }

\* the presets of a namespace: one preset that injects one entry of `kind`
ListsInFlight(kind) ==
    { l \in PresetLists(kind, {MatchingSelector}) : Len(l) = 1 /\ Len(l[1][kind]) = 1 }

NoPodInMemory ==
    [labels |-> EmptyMap, annotations |-> NoAnnotations, volumes |-> NilHeader,
     containers |-> <<>>, initContainers |-> <<>>]

NoContainerInMemory ==
    [name |-> "", env |-> NilHeader, volumeMounts |-> NilHeader, envFrom |-> NilHeader]

\* a request that Handle has not begun, in namespace ns
Arrived(ns, p, spare) ==
    [ns |-> ns,
     req |-> [subResource |-> "", group |-> "", operation |-> "CREATE",
              wellFormed |-> TRUE, object |-> p],
     spare |-> spare, pc |-> "start",
     pod |-> NoPodInMemory, decoded |-> NoPodInMemory,
     listed |-> "no", list |-> <<>>, matching |-> <<>>, err |-> <<>>,
     phase |-> "none", i |-> 0, ctr |-> NoContainerInMemory,
     response |-> NoResponse]

Returned(q, r) == [q EXCEPT !.pc = "done", !.response = r]

HandleDecode(r) ==
    /\ rq[r].pc = "start"
    /\ LET q == rq[r]
           d == StorePod(heap, r, q.req.object, q.spare)
       IN IF q.req.subResource # "" \/ q.req.group # "" \/ q.req.operation # "CREATE"
          THEN /\ rq' = [rq EXCEPT ![r] = Returned(q, Allowed(""))]
               /\ UNCHANGED heap
          ELSE IF ~q.req.wellFormed
          THEN /\ rq' = [rq EXCEPT ![r] = Returned(q, Errored(400, "decode"))]
               /\ UNCHANGED heap
          ELSE /\ heap' = d.heap
               /\ LET a == d.pod.annotations
                      q1 == [q EXCEPT !.pod = d.pod, !.decoded = d.pod]
                  IN rq' = [rq EXCEPT ![r] =
                         IF MirrorPodAnnotationKey \in DOMAIN a.m
                         THEN Returned(q1, Allowed("Mirror Pod"))
                         ELSE IF /\ ~a.isNil
                                 /\ PodPresetOptOutAnnotationKey \in DOMAIN a.m
                                 /\ a.m[PodPresetOptOutAnnotationKey] = "true"
                         THEN Returned(q1, Allowed("Exclusion Annotation Present"))
                         ELSE [q1 EXCEPT !.pc = "list"]]
    /\ UNCHANGED <<store, cache>>
    /\ UNCHANGED hvars
    /\ UNCHANGED mvars

\* faulty variant of HandleList: the list is kept in a field of the mutator,
\* which every request reads (used to test C23)
HandleListIntoField(r) ==
    /\ rq[r].pc = "list"
    /\ LET q == rq[r]
           Both(l) == [x \in Requesters |->
                          IF x = r THEN [q EXCEPT !.listed = "ok", !.list = l,
                                                  !.pc = "filter"]
                          ELSE [rq[x] EXCEPT !.list = l]]
       IN
       \/ /\ rq' = [rq EXCEPT ![r] =
                 Returned([q EXCEPT !.listed = "failed"], Errored(500, "list"))]
          /\ UNCHANGED heap
       \/ /\ cache.shared
          /\ rq' = Both(cache.items[q.ns])
          /\ UNCHANGED heap
       \/ /\ ~cache.shared
          /\ LET c == StorePresets(heap, r, LoadPresets(heap, cache.items[q.ns]), <<>>)
             IN /\ heap' = c.heap
                /\ rq' = Both(c.pps)
    /\ UNCHANGED <<store, cache>>
    /\ UNCHANGED hvars
    /\ UNCHANGED mvars

\* Client.List into the request's own list: it fails, or the items are the
\* client's own objects, or copies of them
HandleList(r) ==
    /\ rq[r].pc = "list"
    /\ LET q == rq[r] IN
       \/ /\ rq' = [rq EXCEPT ![r] =
                 Returned([q EXCEPT !.listed = "failed"], Errored(500, "list"))]
          /\ UNCHANGED heap
       \/ /\ cache.shared
          /\ rq' = [rq EXCEPT ![r] = [q EXCEPT !.listed = "ok",
                                               !.list = cache.items[q.ns],
                                               !.pc = "filter"]]
          /\ UNCHANGED heap
       \/ /\ ~cache.shared
          /\ LET c == StorePresets(heap, r, LoadPresets(heap, cache.items[q.ns]), <<>>)
             IN /\ heap' = c.heap
                /\ rq' = [rq EXCEPT ![r] = [q EXCEPT !.listed = "ok", !.list = c.pps,
                                                     !.pc = "filter"]]
    /\ UNCHANGED <<store, cache>>
    /\ UNCHANGED hvars
    /\ UNCHANGED mvars

\* the matching presets are pointers to items of the request's list
HandleFilter(r) ==
    /\ rq[r].pc = "filter"
    /\ LET q == rq[r]
           f == filterPodPresets(LoadPresets(heap, q.list), LoadPod(heap, q.pod))
           names == { f.matchingPPs[i].name : i \in DOMAIN f.matchingPPs }
           m == SelectSeq(q.list, LAMBDA pp : pp.name \in names)
       IN rq' = [rq EXCEPT ![r] =
              IF ~f.ok THEN Returned(q, Errored(500, "filter"))
              ELSE IF Len(m) = 0 THEN Returned([q EXCEPT !.matching = m], Allowed(""))
              ELSE [q EXCEPT !.matching = m, !.pc = "probe"]]
    /\ UNCHANGED <<heap, store, cache>>
    /\ UNCHANGED hvars
    /\ UNCHANGED mvars

\* safeToApplyPodPresetsOnPod: mergeVolumes, its list dropped
HandleProbe(r) ==
    /\ rq[r].pc = "probe"
    /\ LET q == rq[r]
           m == mergeInMemory("Volumes", heap, r, q.pod.volumes, q.matching)
       IN /\ heap' = m.heap
          /\ rq' = [rq EXCEPT ![r] =
                 [q EXCEPT !.err = IF m.err # <<>> THEN <<m.err>> ELSE <<>>,
                           !.pc = "applyVolumes"]]
    /\ UNCHANGED <<store, cache>>
    /\ UNCHANGED hvars
    /\ UNCHANGED mvars

\* the container the two loops of applyPodPresetsOnPod visit after container
\* i of list `phase`: the containers first, then the init containers
After(p, phase, i) ==
    IF phase = "containers" /\ i < Len(p.containers)
    THEN [phase |-> "containers", i |-> i + 1]
    ELSE IF phase = "containers" /\ Len(p.initContainers) > 0
    THEN [phase |-> "initContainers", i |-> 1]
    ELSE IF phase = "initContainers" /\ i < Len(p.initContainers)
    THEN [phase |-> "initContainers", i |-> i + 1]
    ELSE [phase |-> "none", i |-> 0]

\* for i, ctr := range ...: ctr is a copy of the container
Enter(q, cur) ==
    IF cur.phase = "none" THEN [q EXCEPT !.pc = "annotate"]
    ELSE [q EXCEPT !.pc = "applyEnv", !.phase = cur.phase, !.i = cur.i,
                   !.ctr = q.pod[cur.phase][cur.i]]

\* applyPodPresetsOnPod, first part: the pod's volumes
HandleApplyVolumes(r) ==
    /\ rq[r].pc = "applyVolumes"
    /\ LET q == rq[r]
           m == mergeInMemory("Volumes", heap, r, q.pod.volumes, q.matching)
       IN /\ heap' = m.heap
          /\ rq' = [rq EXCEPT ![r] =
                 Enter([q EXCEPT !.pod.volumes = m.slice],
                       After(q.pod, "containers", 0))]
    /\ UNCHANGED <<store, cache>>
    /\ UNCHANGED hvars
    /\ UNCHANGED mvars

\* applyPodPresetsOnContainer: envVars, _ := mergeEnv(...); ctr.Env = envVars
HandleApplyEnv(r) ==
    /\ rq[r].pc = "applyEnv"
    /\ LET q == rq[r]
           m == mergeInMemory("Env", heap, r, q.ctr.env, q.matching)
       IN /\ heap' = m.heap
          /\ rq' = [rq EXCEPT ![r] =
                 [q EXCEPT !.ctr.env = m.slice, !.pc = "applyVolumeMounts"]]
    /\ UNCHANGED <<store, cache>>
    /\ UNCHANGED hvars
    /\ UNCHANGED mvars

HandleApplyVolumeMounts(r) ==
    /\ rq[r].pc = "applyVolumeMounts"
    /\ LET q == rq[r]
           m == mergeInMemory("VolumeMounts", heap, r, q.ctr.volumeMounts, q.matching)
       IN /\ heap' = m.heap
          /\ rq' = [rq EXCEPT ![r] =
                 [q EXCEPT !.ctr.volumeMounts = m.slice, !.pc = "applyEnvFrom"]]
    /\ UNCHANGED <<store, cache>>
    /\ UNCHANGED hvars
    /\ UNCHANGED mvars

\* the last merge of a container, and pod.Spec.Containers[i] = ctr
HandleApplyEnvFrom(r) ==
    /\ rq[r].pc = "applyEnvFrom"
    /\ LET q == rq[r]
           m == mergeInMemory("EnvFrom", heap, r, q.ctr.envFrom, q.matching)
           ctr == [q.ctr EXCEPT !.envFrom = m.slice]
       IN /\ heap' = m.heap
          /\ rq' = [rq EXCEPT ![r] =
                 Enter([q EXCEPT !.ctr = ctr, !.pod[q.phase][q.i] = ctr],
                       After(q.pod, q.phase, q.i))]
    /\ UNCHANGED <<store, cache>>
    /\ UNCHANGED hvars
    /\ UNCHANGED mvars

\* applyPodPresetsOnPod, last part: the annotations
HandleAnnotate(r) ==
    /\ rq[r].pc = "annotate"
    /\ LET q == rq[r] IN
       rq' = [rq EXCEPT ![r] =
           [q EXCEPT !.pod.annotations =
                         [isNil |-> FALSE,
                          m |-> annotate(q.pod.annotations.m,
                                         LoadPresets(heap, q.matching))],
                     !.pc = "respond"]]
    /\ UNCHANGED <<heap, store, cache>>
    /\ UNCHANGED hvars
    /\ UNCHANGED mvars

\* json.Marshal reads the pod from memory
HandleRespond(r) ==
    /\ rq[r].pc = "respond"
    /\ LET q == rq[r] IN
       rq' = [rq EXCEPT ![r] =
           Returned(q, PatchResponseFromRaw(q.req.object, Marshal(LoadPod(heap, q.pod))))]
    /\ UNCHANGED <<heap, store, cache>>
    /\ UNCHANGED hvars
    /\ UNCHANGED mvars

\* the presets of the two namespaces in the client's memory; namespace "b"
\* has none
InitInFlight ==
    /\ Idle
    /\ mKind = "Env" /\ mOrig = NilSlice /\ mPresets = <<>> /\ mOut = NoMerge
    /\ \E kind \in Kinds :
          /\ store \in { [a |-> l, b |-> <<>>] : l \in ListsInFlight(kind) }
          /\ \E spare \in Spares :
                rq \in { [r1 |-> Arrived("a", p1, spare), r2 |-> Arrived(ns, p2, spare)] :
                         p1 \in PodsInFlight(kind), p2 \in PodsInFlight(kind),
                         ns \in Namespaces }
    /\ LET a == StorePresets([o \in Owners |-> <<>>], "cache", store.a, <<>>)
           b == StorePresets(a.heap, "cache", store.b, <<>>)
       IN /\ heap = b.heap
          /\ cache \in { [shared |-> s, items |-> [a |-> a.pps, b |-> b.pps]] :
                         s \in BOOLEAN }

NextInFlight ==
    \E r \in Requesters :
        \/ HandleDecode(r)
        \/ HandleList(r)
        \/ HandleFilter(r)
        \/ HandleProbe(r)
        \/ HandleApplyVolumes(r)
        \/ HandleApplyEnv(r)
        \/ HandleApplyVolumeMounts(r)
        \/ HandleApplyEnvFrom(r)
        \/ HandleAnnotate(r)
        \/ HandleRespond(r)

SpecInFlight == InitInFlight /\ [][NextInFlight]_vars

-----------------------------------------------------------------------------
(* Vocabulary of the properties of the mergers *)

\* the identity key of an entry of a kind
KeyOf(kind, e) == IF kind = "EnvFrom" THEN newEnvFromMergeKey(e) ELSE e.name

\* no two entries of the sequence have the same identity key
UniqueKeys(kind, q) ==
    \A i, j \in DOMAIN q : KeyOf(kind, q[i]) = KeyOf(kind, q[j]) => i = j

\* no two mounts of the sequence have the same mount path
UniquePaths(q) ==
    \A i, j \in DOMAIN q : q[i].mountPath = q[j].mountPath => i = j

\* a target list as the invariants of the data model want it: no key twice,
\* and for mounts no path twice
WellKeyed(kind, q) ==
    UniqueKeys(kind, q) /\ (kind = "VolumeMounts" => UniquePaths(q))

\* the entries the presets inject, in the order the loops visit them
Injected == RangePresets(mPresets, mKind)

\* the last entry of the target's list with the key of v
LastWithKey(kind, q, v) ==
    q[CHOOSE i \in DOMAIN q :
        /\ KeyOf(kind, q[i]) = KeyOf(kind, v)
        /\ \A j \in DOMAIN q : KeyOf(kind, q[j]) = KeyOf(kind, v) => j <= i]

Called == pc = "idle" /\ mOut.called

(* C6, as stated: a preset entry with the key of some target entry and not *)
(* deep-equal to it makes the merge return a conflict, and a merged list   *)
(* never has a preset value where the target's value was.                  *)
C6_AnyUnequalTargetEntryConflicts ==
    Called =>
        /\ (\E x \in Range(Injected), t \in Range(mOrig.items) :
                KeyOf(mKind, x.v) = KeyOf(mKind, t) /\ x.v # t)
           => mOut.err # <<>>
        /\ mOut.err = <<>> =>
               \A i \in DOMAIN mOrig.items :
                   i \in DOMAIN mOut.merged.items /\ mOut.merged.items[i] = mOrig.items[i]

(* C6, amended: a preset entry that has the key of a target entry and is   *)
(* not deep-equal to the LAST target entry with that key makes the merge   *)
(* return a conflict; a merged list keeps every target entry at its place. *)
C6_UnequalIndexedTargetEntryConflicts ==
    Called =>
        /\ (\E x \in Range(Injected) :
                /\ \E t \in Range(mOrig.items) : KeyOf(mKind, x.v) = KeyOf(mKind, t)
                /\ x.v # LastWithKey(mKind, mOrig.items, x.v))
           => mOut.err # <<>>
        /\ mOut.err = <<>> =>
               \A i \in DOMAIN mOrig.items :
                   i \in DOMAIN mOut.merged.items /\ mOut.merged.items[i] = mOrig.items[i]

C6_Witness ==
    /\ Called
    /\ mKind = "EnvFrom"
    /\ \E x \in Range(Injected) :
          /\ \E t \in Range(mOrig.items) : KeyOf(mKind, x.v) = KeyOf(mKind, t)
          /\ x.v # LastWithKey(mKind, mOrig.items, x.v)
    /\ mOut.err # <<>>

\* entries x and y of two different presets collide on a key the target lacks
PresetsCollide(x, y) ==
    /\ x.pp # y.pp
    /\ x.v # y.v
    /\ \/ /\ x.v.name = y.v.name
          /\ \A t \in Range(mOrig.items) : t.name # x.v.name
       \/ /\ mKind = "VolumeMounts"
          /\ x.v.mountPath = y.v.mountPath
          /\ \A t \in Range(mOrig.items) : t.mountPath # x.v.mountPath

(* C7: for Env, Volumes and VolumeMounts, two presets that carry entries   *)
(* with the same key (name, or mount path) and unequal values, the target  *)
(* having no entry with that key, make the merge return a conflict, in     *)
(* either order of the two presets.                                        *)
C7_PresetVsPresetConflicts ==
    (Called /\ mKind # "EnvFrom") =>
        ((\E x, y \in Range(Injected) : PresetsCollide(x, y)) => mOut.err # <<>>)

C7_Witness ==
    /\ Called
    /\ mKind = "VolumeMounts"
    /\ mOrig.items # <<>>
    /\ \E x, y \in Range(Injected) :
          x.pp = "p2" /\ y.pp = "p1" /\ PresetsCollide(x, y) /\ x.v.name # y.v.name
    /\ mOut.err # <<>>

(* C8: mergeEnvFrom is a keyed union over (prefix, configMapRef name,      *)
(* secretRef name): an entry of a later preset with a triple an earlier    *)
(* preset brought in is not appended again and is a conflict when unequal, *)
(* and a target without a repeated triple gives a merged list without one. *)
C8_EnvFromKeyedUnion ==
    (Called /\ mKind = "EnvFrom") =>
        /\ (\E x, y \in Range(Injected) :
                /\ x.pp # y.pp
                /\ KeyOf(mKind, x.v) = KeyOf(mKind, y.v)
                /\ x.v # y.v)
           => mOut.err # <<>>
        /\ (mOut.err = <<>> /\ UniqueKeys(mKind, mOrig.items))
           => UniqueKeys(mKind, mOut.merged.items)

(* C9: a conflict-free mergeEnv, mergeVolumes or mergeVolumeMounts on a    *)
(* target without a repeated key returns a list without a repeated name,   *)
(* and mergeVolumeMounts one without a repeated mount path.                *)
C9_MergedHasNoRepeatedKey ==
    (Called /\ mKind # "EnvFrom" /\ WellKeyed(mKind, mOrig.items) /\ mOut.err = <<>>) =>
        WellKeyed(mKind, mOut.merged.items)

C9_Witness ==
    /\ Called
    /\ mKind = "VolumeMounts"
    /\ WellKeyed(mKind, mOrig.items)
    /\ mOut.err = <<>>
    /\ Len(mOut.merged.items) > Len(mOrig.items)
    /\ Len(Injected) > Len(mOut.merged.items) - Len(mOrig.items)

(* C10, as stated: when every entry of every preset is deep-equal to an    *)
(* entry of the target's list, the merge reports no conflict and returns   *)
(* exactly the target's entries in their order.                            *)
C10_EqualValueNoOp ==
    (Called /\ \A x \in Range(Injected) : x.v \in Range(mOrig.items)) =>
        (mOut.err = <<>> /\ mOut.merged.items = mOrig.items)

(* C10, amended: the same, for a target's list without a repeated key (for *)
(* mounts: without a repeated name or mount path).                         *)
C10_EqualValueNoOpWellKeyed ==
    (/\ Called
     /\ WellKeyed(mKind, mOrig.items)
     /\ \A x \in Range(Injected) : x.v \in Range(mOrig.items)) =>
        (mOut.err = <<>> /\ mOut.merged.items = mOrig.items)

C10_Witness ==
    /\ Called
    /\ mKind = "VolumeMounts"
    /\ WellKeyed(mKind, mOrig.items)
    /\ Len(Injected) = 2
    /\ \A x \in Range(Injected) : x.v \in Range(mOrig.items)
    /\ mOut.merged.items = mOrig.items

-----------------------------------------------------------------------------
(* Vocabulary of the properties of Handle *)

Called_(step) == step \in Range(trace)

AllContainers(p) == Range(p.containers) \cup Range(p.initContainers)

\* some merge of the presets into the pod reports a conflict
AnyMergeConflict(p, podPresets) ==
    \/ mergeVolumes(p.volumes, podPresets).err # <<>>
    \/ \E ctr \in AllContainers(p) :
          \/ mergeEnv(ctr.env, podPresets).err # <<>>
          \/ mergeEnvFrom(ctr.envFrom, podPresets).err # <<>>
          \/ mergeVolumeMounts(ctr.volumeMounts, podPresets).err # <<>>

\* every entry of list `before` is an entry of list `after`
Keeps(before, after) == Range(before.items) \subseteq Range(after.items)

KeepsContainers(before, after) ==
    /\ DOMAIN before = DOMAIN after
    /\ \A i \in DOMAIN before :
          /\ Keeps(before[i].env, after[i].env)
          /\ Keeps(before[i].envFrom, after[i].envFrom)
          /\ Keeps(before[i].volumeMounts, after[i].volumeMounts)

\* every original entry of pod `before` is in pod `after`
KeepsOriginal(before, after) ==
    /\ Keeps(before.volumes, after.volumes)
    /\ KeepsContainers(before.containers, after.containers)
    /\ KeepsContainers(before.initContainers, after.initContainers)

\* pod p has every entry of every one of the presets
HasAllOf(p, podPresets) ==
    \A i \in DOMAIN podPresets :
        /\ Range(podPresets[i].Volumes) \subseteq Range(p.volumes.items)
        /\ \A ctr \in AllContainers(p) :
              /\ Range(podPresets[i].Env) \subseteq Range(ctr.env.items)
              /\ Range(podPresets[i].EnvFrom) \subseteq Range(ctr.envFrom.items)
              /\ Range(podPresets[i].VolumeMounts) \subseteq Range(ctr.volumeMounts.items)

\* the pod the response leaves the request with
ReturnedPod == Patched(req.object, response.patches)

(* C1: the applier runs only in a request whose probe returned no error;   *)
(* when the probe reports a conflict the applier is never invoked and the  *)
(* response carries the decoded pod as it was.                             *)
C1_ApplyOnlyAfterCleanProbe ==
    (Called_("probe") /\ err # <<>>) =>
        /\ ~Called_("apply")
        /\ pc = "done" => (DOMAIN response.patches = {} /\ ReturnedPod = req.object)

(* C2: a merge conflict never fails the request: whatever the decoded pod  *)
(* and the presets that match it, conflicting ones included, a request     *)
(* whose presets were listed and filtered ends with an allowed response,   *)
(* never with an error or a denial.                                        *)
C2_ConflictNeverFailsRequest ==
    (/\ pc = "done"
     /\ Called_("filter")
     /\ filterPodPresets(podPresetList, req.object).ok) => response.allowed

C2_Witness ==
    /\ pc = "done"
    /\ Called_("probe")
    /\ err # <<>>
    /\ Len(matchingPPs) = 2
    /\ response.allowed

(* C3: the probe returns a conflict exactly when mergeVolumes on the pod,  *)
(* or mergeEnv, mergeEnvFrom or mergeVolumeMounts on one of its containers *)
(* or init containers, reports one.                                        *)
C3_ProbeReportsEveryMergeConflict ==
    pc = "apply" => (err # <<>> <=> AnyMergeConflict(pod, matchingPPs))

(* C4: original wins in the applier: after it has run, every entry of the  *)
(* pod's original Volumes and of every container's and init container's    *)
(* original Env, EnvFrom and VolumeMounts is still there.                  *)
C4_OriginalWins ==
    (pc = "respond" /\ Called_("apply")) => KeepsOriginal(req.object, pod)

(* C5: after Handle on a pod with a matching preset and no conflict, the   *)
(* returned pod has every volume of every matching preset, and every       *)
(* container and init container has every Env, EnvFrom and VolumeMounts    *)
(* entry of every matching preset.                                         *)
C5_EveryPresetEntryInjected ==
    (/\ pc = "done"
     /\ Called_("apply")
     /\ ~AnyMergeConflict(req.object, matchingPPs)) =>
        HasAllOf(ReturnedPod, matchingPPs)

C5_Witness ==
    /\ pc = "done"
    /\ Called_("apply")
    /\ ~AnyMergeConflict(req.object, matchingPPs)
    /\ req.object.initContainers # <<>>
    /\ req.object.initContainers[1].envFrom.items # <<>>
    /\ Len(matchingPPs) = 2
    /\ \A i \in DOMAIN matchingPPs : matchingPPs[i].EnvFrom # <<>>
    /\ HasAllOf(ReturnedPod, matchingPPs)

-----------------------------------------------------------------------------
(* C11: mergeVolumeMounts checks the mount name and the mount path each on *)
(* its own: a preset mount at the path of a target mount, under a name the *)
(* target does not have, is a conflict, and a preset mount with the name   *)
(* of a target mount, at a path the target does not have, is a conflict.   *)

\* preset mount v meets target mount t on the path alone
PathOnlyCollision(v, t) ==
    /\ v.mountPath = t.mountPath
    /\ v.name # t.name
    /\ \A u \in Range(mOrig.items) : u.name # v.name

\* preset mount v meets target mount t on the name alone
NameOnlyCollision(v, t) ==
    /\ v.name = t.name
    /\ v.mountPath # t.mountPath
    /\ \A u \in Range(mOrig.items) : u.mountPath # v.mountPath

C11_NameAndPathCheckedIndependently ==
    (Called /\ mKind = "VolumeMounts") =>
        ((\E x \in Range(Injected), t \in Range(mOrig.items) :
              PathOnlyCollision(x.v, t) \/ NameOnlyCollision(x.v, t))
         => mOut.err # <<>>)

C11_Witness ==
    /\ Called
    /\ mKind = "VolumeMounts"
    /\ Len(Injected) = 1
    /\ \E t \in Range(mOrig.items) : PathOnlyCollision(Injected[1].v, t)
    /\ Len(mOut.err) = 1
    /\ mOut.err[1].what = "mountPath"

-----------------------------------------------------------------------------
(* C12: empty-result normalization: for a pod without volumes and presets  *)
(* that bring no volume, mergeVolumes returns a nil list and no conflict:  *)
(* the probe, which is that call, is clean, and after the applier has      *)
(* assigned the result the pod's Volumes is nil, not an empty list.        *)

NoVolumeAnywhere ==
    /\ req.object.volumes.items = <<>>
    /\ \A i \in DOMAIN matchingPPs : matchingPPs[i].Volumes = <<>>

C12_EmptyVolumesAreNil ==
    (pc = "respond" /\ Called_("apply") /\ NoVolumeAnywhere) =>
        (err = <<>> /\ pod.volumes = NilSlice)

C12_Witness ==
    /\ pc = "respond"
    /\ Called_("apply")
    /\ NoVolumeAnywhere
    /\ req.object.volumes = MakeSlice(<<>>)
    /\ pod.volumes = NilSlice

-----------------------------------------------------------------------------
(* C13: when a merge reports no conflict, the merged list is the target's  *)
(* list, in its order and unchanged, followed by exactly the preset        *)
(* entries whose key was not yet seen, each once, in the order the presets *)
(* and their entries are iterated.                                         *)

\* the entries of todo whose key is neither in seen nor the key of an
\* earlier entry of todo, in order
RECURSIVE FirstSeen(_, _, _)
FirstSeen(kind, todo, seen) ==
    IF todo = <<>> THEN <<>>
    ELSE LET k == KeyOf(kind, Head(todo).v) IN
         IF k \in seen THEN FirstSeen(kind, Tail(todo), seen)
         ELSE <<Head(todo).v>> \o FirstSeen(kind, Tail(todo), seen \cup {k})

KeysOf(kind, q) == { KeyOf(kind, q[i]) : i \in DOMAIN q }

C13_TargetThenUnseenEntriesOnce ==
    (Called /\ mOut.err = <<>>) =>
        mOut.merged.items =
            mOrig.items \o FirstSeen(mKind, Injected, KeysOf(mKind, mOrig.items))

-----------------------------------------------------------------------------
(* C14: the result of a merge (merged list and reported conflicts) does    *)
(* not depend on the order in which the matching presets are supplied.     *)

\* the rearrangements of a sequence
Permutations_(q) ==
    { [i \in DOMAIN q |-> q[f[i]]] :
          f \in { g \in [DOMAIN q -> DOMAIN q] :
                      \A i, j \in DOMAIN q : g[i] = g[j] => i = j } }

C14_PresetOrderIrrelevant ==
    Called =>
        \A p \in Permutations_(mPresets) :
            LET out == merge(mKind, mOrig, p) IN
                /\ out.merged = mOut.merged
                /\ Range(out.err) = Range(mOut.err)

-----------------------------------------------------------------------------
(* C15: idempotence.  For a pod and presets on which the probe was clean,  *)
(* probing and applying the same presets a second time to the result is    *)
(* clean again and leaves the pod as the first application left it.        *)
C15_SecondApplicationChangesNothing ==
    (pc = "respond" /\ Called_("apply") /\ err = <<>>) =>
        /\ safeToApplyPodPresetsOnPod(pod, matchingPPs) = <<>>
        /\ applyPodPresetsOnPod(pod, matchingPPs) = pod

-----------------------------------------------------------------------------
(* C16: after applyPodPresetsOnPod with a non-empty preset list the pod's  *)
(* annotations hold, for every preset of the list, the key                 *)
(* "<prefix>/podpreset-<name>" with the preset's resource version, also    *)
(* for a preset that added no entry; the annotations the pod had under     *)
(* other keys are unchanged and no other key is added.                     *)
ProvenanceKeys ==
    { <<"podpreset.admission.kubernetes.io", "/podpreset-", matchingPPs[i].name>> :
          i \in DOMAIN matchingPPs }

InjectsNothing(pp) ==
    pp.Env = <<>> /\ pp.EnvFrom = <<>> /\ pp.Volumes = <<>> /\ pp.VolumeMounts = <<>>

C16_OneAnnotationPerPreset ==
    (pc = "respond" /\ Called_("apply") /\ matchingPPs # <<>>) =>
        LET before == req.object.annotations.m
            after  == pod.annotations.m
        IN /\ ~pod.annotations.isNil
           /\ \A i \in DOMAIN matchingPPs :
                  LET k == <<"podpreset.admission.kubernetes.io", "/podpreset-",
                             matchingPPs[i].name>>
                  IN k \in DOMAIN after /\ after[k] = matchingPPs[i].resourceVersion
           /\ \A k \in DOMAIN before \ ProvenanceKeys :
                  k \in DOMAIN after /\ after[k] = before[k]
           /\ DOMAIN after = DOMAIN before \cup ProvenanceKeys

C16_Witness ==
    /\ pc = "respond" /\ Called_("apply")
    /\ Len(matchingPPs) = 2
    /\ InjectsNothing(matchingPPs[2]) /\ ~InjectsNothing(matchingPPs[1])
    /\ req.object.annotations = Annotated(PodPresetOptOutAnnotationKey, "false")
    /\ Cardinality(DOMAIN pod.annotations.m) = 3
    /\ pod.annotations.m[<<"podpreset.admission.kubernetes.io", "/podpreset-", "p2">>]
           = matchingPPs[2].resourceVersion

-----------------------------------------------------------------------------
(* C17: when no preset matches the pod, the pod is returned unchanged:     *)
(* applyPodPresetsOnPod with an empty preset list changes no field and     *)
(* does not initialise the annotation map, and Handle answers allowed      *)
(* with no patch.                                                          *)
NoPresetMatched ==
    /\ pc = "done" /\ Called_("filter")
    /\ filterPodPresets(podPresetList, pod).ok
    /\ filterPodPresets(podPresetList, pod).matchingPPs = <<>>

C17_NoMatchNoChange ==
    NoPresetMatched =>
        /\ response.allowed
        /\ DOMAIN response.patches = {}
        /\ ReturnedPod = req.object
        /\ applyPodPresetsOnPod(pod, matchingPPs) = pod
        /\ Marshal(applyPodPresetsOnPod(pod, matchingPPs)) = Marshal(req.object)

C17_Witness ==
    /\ NoPresetMatched
    /\ Len(podPresetList) = 2
    /\ \E i \in DOMAIN podPresetList : ~InjectsNothing(podPresetList[i])
    /\ req.object.annotations = NoAnnotations
    /\ applyPodPresetsOnPod(pod, matchingPPs).annotations.isNil
    /\ response = Allowed("")

-----------------------------------------------------------------------------
(* C18: for a pod that carries the mirror-pod annotation, or the opt-out   *)
(* annotation with value "true", Handle returns allowed with no patch      *)
(* before any preset listing, selector filtering, probe or apply.          *)
Excluded(p) ==
    \/ <<"kubernetes.io", "/config.mirror">> \in DOMAIN p.annotations.m
    \/ /\ <<"podpreset.admission.kubernetes.io", "/exclude">> \in DOMAIN p.annotations.m
       /\ p.annotations.m[<<"podpreset.admission.kubernetes.io", "/exclude">>] = "true"

C18_ExclusionComesFirst ==
    (Called_("decode") /\ req.wellFormed /\ Excluded(req.object)) =>
        /\ Range(trace) \cap {"list", "filter", "probe", "apply"} = {}
        /\ pc \in {"exclusion", "done"}
        /\ pc = "done" =>
               /\ response.allowed
               /\ DOMAIN response.patches = {}
               /\ ReturnedPod = req.object

C18_Witness ==
    /\ pc = "done" /\ Called_("decode")
    /\ req.object.annotations = Annotated(PodPresetOptOutAnnotationKey, "true")
    /\ response = Allowed("Exclusion Annotation Present")
    /\ trace = <<"decode">>

-----------------------------------------------------------------------------
(* C19: a failure before the merge ends the request with an error and no   *)
(* merge: a pod that cannot be decoded gives a 400 response, a failed      *)
(* preset listing or an invalid selector on any listed preset gives a 500  *)
(* response, and in each of these requests neither the probe nor the       *)
(* applier runs and no patch is produced.                                  *)
DecodeFailed == Called_("decode") /\ ~req.wellFormed
ListFailed == pc = "done" /\ trace = <<"decode", "list">>
SelectorInvalid ==
    Called_("filter") /\ \E i \in DOMAIN podPresetList : podPresetList[i].selector.badExpr

RefusedWith(code) ==
    /\ pc = "done"
    /\ ~response.allowed
    /\ response.code = code
    /\ DOMAIN response.patches = {}
    /\ Range(trace) \cap {"probe", "apply"} = {}

C19_EarlyFailureNoMerge ==
    /\ DecodeFailed => RefusedWith(400)
    /\ ListFailed => RefusedWith(500)
    /\ SelectorInvalid => RefusedWith(500)

C19_Witness ==
    /\ SelectorInvalid
    /\ Len(podPresetList) = 2
    /\ ~podPresetList[1].selector.badExpr
    /\ Matches(LabelSelectorAsSelector(podPresetList[1].selector), pod.labels)
    /\ ~InjectsNothing(podPresetList[1])
    /\ podPresetList[2].selector.badExpr
    /\ RefusedWith(500)

-----------------------------------------------------------------------------
(* C20: conflicts are aggregated: the report of the probe holds the        *)
(* conflicts of every sub-merge that failed (the pod's volumes and every   *)
(* container's env and volume mounts), not only of the first.              *)
FailedSubMerges(p, podPresets) ==
    ({ mergeVolumes(p.volumes, podPresets).err }
        \cup { mergeEnv(ctr.env, podPresets).err : ctr \in AllContainers(p) }
        \cup { mergeVolumeMounts(ctr.volumeMounts, podPresets).err :
                   ctr \in AllContainers(p) })
    \ { <<>> }

C20_ProbeReportHasEverySubMergeConflict ==
    pc = "apply" => FailedSubMerges(pod, matchingPPs) \subseteq Range(err)

-----------------------------------------------------------------------------
(* C22: after a clean probe the applier's ignored-error branch is never    *)
(* taken: for a pod and preset list on which safeToApplyPodPresetsOnPod    *)
(* returns no error, none of the merges that applyPodPresetsOnPod makes on *)
(* the same inputs returns a conflict.                                     *)
ApplierMergeErrors(p, podPresets) ==
    { mergeVolumes(p.volumes, podPresets).err }
        \cup UNION { { mergeEnv(ctr.env, podPresets).err,
                       mergeVolumeMounts(ctr.volumeMounts, podPresets).err,
                       mergeEnvFrom(ctr.envFrom, podPresets).err } :
                     ctr \in AllContainers(p) }

C22_CleanProbeMeansCleanApply ==
    (pc = "apply" /\ safeToApplyPodPresetsOnPod(pod, matchingPPs) = <<>>) =>
        ApplierMergeErrors(pod, matchingPPs) = { <<>> }

-----------------------------------------------------------------------------
(* C24: the presets that Handle probes, applies and records in the         *)
(* annotations are exactly the listed presets whose label selector matches *)
(* the pod's labels, in the order of the listing; one invalid selector in  *)
(* the listing gives no matching set at all.                               *)
SelectorMatches(pp, labels) ==
    /\ ~pp.selector.badExpr
    /\ \A k \in DOMAIN pp.selector.matchLabels :
           k \in DOMAIN labels /\ labels[k] = pp.selector.matchLabels[k]

\* the listed presets that match the request's pod, in listing order
ListedAndMatching ==
    LET Test(pp) == SelectorMatches(pp, req.object.labels)
    IN SelectSeq(podPresetList, Test)

\* the presets the pod's annotations name
AnnotatedPresets(p) ==
    { n \in Range(PresetNames) :
          <<"podpreset.admission.kubernetes.io", "/podpreset-", n>>
              \in DOMAIN p.annotations.m }

C24_ExactlyTheMatchingPresets ==
    /\ Called_("probe") =>
           /\ matchingPPs = ListedAndMatching
           /\ err = safeToApplyPodPresetsOnPod(req.object, ListedAndMatching)
    /\ (pc = "respond" /\ Called_("apply")) =>
           /\ pod = applyPodPresetsOnPod(req.object, ListedAndMatching)
           /\ AnnotatedPresets(pod) =
                  { ListedAndMatching[i].name : i \in DOMAIN ListedAndMatching }
    /\ SelectorInvalid =>
           /\ matchingPPs = <<>>
           /\ Range(trace) \cap {"probe", "apply"} = {}

C24_Witness ==
    /\ pc = "respond" /\ Called_("apply")
    /\ Len(podPresetList) = 2
    /\ ~SelectorMatches(podPresetList[1], req.object.labels)
    /\ ~InjectsNothing(podPresetList[1])
    /\ SelectorMatches(podPresetList[2], req.object.labels)
    /\ ~InjectsNothing(podPresetList[2])
    /\ matchingPPs = <<podPresetList[2]>>
    /\ AnnotatedPresets(pod) = {"p2"}

-----------------------------------------------------------------------------
(* Vocabulary of the properties of the requests in flight *)

\* the slice headers of a pod in memory, each with the kind of its entries
HeadersOf(p) ==
    { [kind |-> "Volumes", s |-> p.volumes] }
        \cup UNION { { [kind |-> "Env", s |-> c.env],
                       [kind |-> "VolumeMounts", s |-> c.volumeMounts],
                       [kind |-> "EnvFrom", s |-> c.envFrom] } :
                     c \in Range(p.containers) \cup Range(p.initContainers) }

\* the backing arrays a pod in memory points into
ArraysOf(p) == { x.s.arr : x \in HeadersOf(p) } \ { NoArray }

\* the backing arrays the presets of a list point into
ArraysOfPresets(pps) ==
    UNION { { pps[i].Env.arr, pps[i].EnvFrom.arr, pps[i].Volumes.arr,
              pps[i].VolumeMounts.arr } : i \in DOMAIN pps }
        \ { NoArray }

\* the arrays that are inputs of the merges of request r: those of the pod
\* as decoded, of the request's list and of the client's presets
InputArrays(r) ==
    ArraysOf(rq[r].decoded) \cup ArraysOfPresets(rq[r].list)
        \cup UNION { ArraysOfPresets(cache.items[ns]) : ns \in Namespaces }

\* every array of the decoded pod holds what the decoder put there: the
\* entries of the request's object and the zero cells behind them
DecodedArraysIntact(r) ==
    /\ LoadPod(heap, rq[r].decoded) = rq[r].req.object
    /\ \A x \in HeadersOf(rq[r].decoded) :
           x.s.arr # NoArray =>
               Backing(heap, x.s) =
                   SubSeq(Backing(heap, x.s), 1, x.s.len) \o Zeros(x.kind, rq[r].spare)

\* every preset in memory, the client's and the listed ones, is as stored
PresetsIntact ==
    /\ \A ns \in Namespaces : LoadPresets(heap, cache.items[ns]) = store[ns]
    /\ \A r \in Requesters :
           rq[r].listed = "ok" => LoadPresets(heap, rq[r].list) = store[rq[r].ns]

Decoded(r) == rq[r].pc \notin {"start"} /\ rq[r].decoded # NoPodInMemory

\* the merges of the applier have all returned
Applied(r) == rq[r].pc \in {"annotate", "respond"}

(* C21: probing and merging leave their inputs unchanged: the probe and    *)
(* the four merge functions never modify the pod, the list passed as       *)
(* original (the merged list is a new sequence) or a preset, conflict or   *)
(* not, and the applier never modifies a preset.                           *)
C21_InputsLeftUnchanged ==
    /\ PresetsIntact
    /\ \A r \in Requesters :
           /\ Decoded(r) => DecodedArraysIntact(r)
           /\ rq[r].pc = "applyVolumes" => rq[r].pod = rq[r].decoded
           /\ Applied(r) => ArraysOf(rq[r].pod) \cap InputArrays(r) = {}

C21_Witness ==
    /\ cache.shared
    /\ rq.r1.spare = 1
    /\ rq.r1.ns = rq.r2.ns
    /\ Applied("r1") /\ rq.r1.err # <<>> /\ rq.r1.decoded.volumes.len = 1
    /\ Applied("r2") /\ rq.r2.err = <<>> /\ rq.r2.decoded.volumes.len = 1
    /\ rq.r2.pod.volumes.len = 2
    /\ ArraysOf(rq.r2.pod) # {}

\* Handle as a function of the request and of what Client.List gives: the
\* response of a request that is processed alone
HandleAlone(request, listOk, list) ==
    IF request.subResource # "" \/ request.group # "" \/ request.operation # "CREATE"
    THEN Allowed("")
    ELSE IF ~request.wellFormed THEN Errored(400, "decode")
    ELSE LET p == request.object
             a == p.annotations
         IN IF MirrorPodAnnotationKey \in DOMAIN a.m THEN Allowed("Mirror Pod")
            ELSE IF /\ ~a.isNil
                    /\ PodPresetOptOutAnnotationKey \in DOMAIN a.m
                    /\ a.m[PodPresetOptOutAnnotationKey] = "true"
            THEN Allowed("Exclusion Annotation Present")
            ELSE IF ~listOk THEN Errored(500, "list")
            ELSE LET f == filterPodPresets(list, p) IN
                 IF ~f.ok THEN Errored(500, "filter")
                 ELSE IF Len(f.matchingPPs) = 0 THEN Allowed("")
                 ELSE PatchResponseFromRaw(
                          p, Marshal(applyPodPresetsOnPod(p, f.matchingPPs)))

\* request r is between its first step and its response
InFlight(r) == rq[r].pc \notin {"start", "done"}

\* what request r has of its pod at its position, had it run alone
PodAlone(r) ==
    LET q == rq[r]
        p == q.req.object
        pps == filterPodPresets(store[q.ns], p).matchingPPs
        full == applyPodPresetsOnPod(p, pps)
        Ctr(phase, i) ==
            IF \/ q.pc \in {"annotate", "respond", "done"}
               \/ (q.phase = phase /\ i < q.i)
               \/ (q.phase = "initContainers" /\ phase = "containers")
            THEN full[phase][i] ELSE p[phase][i]
    IN IF q.pc \in {"list", "filter", "probe", "applyVolumes"} \/ pps = <<>> THEN p
       ELSE [p EXCEPT
               !.volumes = full.volumes,
               !.containers = [i \in DOMAIN p.containers |-> Ctr("containers", i)],
               !.initContainers = [i \in DOMAIN p.initContainers |->
                                      Ctr("initContainers", i)],
               !.annotations = IF q.pc \in {"respond", "done"} THEN full.annotations
                               ELSE p.annotations]

(* C23: requests do not interfere: with the steps of two requests          *)
(* interleaved in any way, each response is the response the request gets  *)
(* when processed alone against the same presets, and no request sees a    *)
(* pod or a list that the other has modified.                              *)
C23_RequestsDoNotInterfere ==
    \A r \in Requesters :
        /\ rq[r].pc = "done" =>
               rq[r].response =
                   HandleAlone(rq[r].req, rq[r].listed # "failed", store[rq[r].ns])
        /\ rq[r].listed = "ok" => LoadPresets(heap, rq[r].list) = store[rq[r].ns]
        /\ (Decoded(r) /\ rq[r].listed # "failed") =>
               LoadPod(heap, rq[r].pod) = PodAlone(r)

C23_Witness ==
    /\ cache.shared
    /\ rq.r1.ns = rq.r2.ns
    /\ rq.r1.pc = "applyEnvFrom" /\ rq.r2.pc = "applyVolumeMounts"
    /\ rq.r1.ctr.env.len = 2 /\ rq.r2.ctr.env.len = 2
    /\ rq.r1.req.object # rq.r2.req.object

=============================================================================
